---- MODULE Spec2Model ----
(***************************************************************************)
(* Epstein civil violence model with a censored small-world influence      *)
(* network (epstein_civil_violence/model.py, agent.py).                    *)
(*                                                                         *)
(* Real-valued quantities are kept as scaled integers:                     *)
(*   densities, legitimacy, hardship, risk_aversion, active_threshold,     *)
(*   rewire_prob and p_link_censor in tenths; grievance in hundredths;     *)
(*   arrest_probability in thousandths (or None before the first          *)
(*   estimate).  A draw random() < p can succeed iff p > 0 and can fail    *)
(*   iff p < 1.  Averages and ratios are kept as fractions <<num, den>>.   *)
(***************************************************************************)
EXTENDS Integers, FiniteSets, Sequences, TLC

VARIABLES
    phase,           \* "new" (before __init__), "error" (__init__ raised),
                     \* "idle" (between steps), "agents" (inside schedule.step)
    error,           \* the exception __init__ raised, or "none"
    cfg,             \* the constructor's arguments
    agents,          \* unique_id -> the agent's fields
    G,               \* [nodes, censor_steps]: the influence network
    number_of_edges,
    link_to_censor,  \* the pending censorship set
    to_step,         \* agents the scheduler has not activated yet in this step
    iteration,
    running,
    counts,          \* the model's count / average fields (model.py 92-109)
    model_vars,      \* the latest row of the data collector's model reporters
    jail_at_start,   \* history: jail_sentence of every citizen when the step began
    pos_at_start,    \* history: the cell of every agent when the step began
    ego_view,        \* the fields the latest prepare_ego call set on its citizen
    ties_at,         \* history: citizen -> the tick that last computed its tie counters
                     \* (0: they hold the values of __init__)
    activated,       \* history: citizens that turned Active in their step of this tick
    censored_at      \* history: edge -> the tick whose resolution last censored it (0: none)

vars == <<phase, error, cfg, agents, G, number_of_edges, link_to_censor, to_step,
          iteration, running, counts, model_vars, jail_at_start, pos_at_start, ego_view,
          ties_at, activated, censored_at>>

(***************************************************************************)
(* Bounds of the model.                                                    *)
(***************************************************************************)
Width == 4              \* cells of the (ring-shaped) torus
MaxAgents == 3          \* largest population the constructor places
MaxJailTerm == 2        \* max_jail_term
MaxIters == 3           \* max_iters
MaxCensor == 2          \* largest t_censor
MaxNodes == 4           \* citizens of the networks the ego view is computed on

Vision == 1             \* citizen_vision and cop_vision
StrongWeakRatio == 5    \* strong_weak_ratio
EgoRadius == 2          \* radius of the ego network

Densities == {0, 3, 7, 10}
Hardships == {5}
RiskAversions == {9}

Min(S) == CHOOSE x \in S : \A y \in S : x <= y

RECURSIVE SumOver(_, _)
SumOver(S, f) ==
    IF S = {} THEN 0
    ELSE LET x == CHOOSE y \in S : TRUE IN f[x] + SumOver(S \ {x}, f)

(***************************************************************************)
(* Fractions.                                                              *)
(***************************************************************************)
Zero == <<0, 1>>
ZeroDivisionError == <<0, 0>>     \* the outcome of a division by zero
\* Python's n / d
Frac(n, d) == IF d = 0 THEN ZeroDivisionError ELSE <<n, d>>
RatEq(a, b) == a[1] * b[2] = b[1] * a[2]

(***************************************************************************)
(* Constructor arguments explored.                                         *)
(***************************************************************************)
Schedules == {"Sequential", "Random", "Simultaneous"}
Modes == {"With SWN", "Without SWN"}

Config(w, cd, pd, mv, mi, st, at, k, tc, pl) ==
    [ width |-> w, height |-> 1,
      citizen_density |-> cd, cop_density |-> pd,
      citizen_vision |-> Vision, cop_vision |-> Vision,
      legitimacy |-> 0, max_jail_term |-> MaxJailTerm,
      active_threshold |-> 0, movement |-> mv, max_iters |-> mi,
      schedule_type |-> st, activation_type |-> at,
      lattice_neighbor |-> k, rewire_prob |-> 0,
      strong_weak_ratio |-> StrongWeakRatio,
      t_censor |-> tc, p_link_censor |-> pl ]

Configs ==
    \* densities and lattice degrees, which decide whether construction succeeds;
    \* a grid of MaxAgents cells can be filled
    { Config(MaxAgents, cd, pd, TRUE, MaxIters, "Sequential", "With SWN", k, MaxCensor, 10) :
        cd \in Densities, pd \in Densities, k \in {0, 1, 2} }
    \* activation policies, movement and the two activation types
    \cup { Config(Width, 3, 3, mv, MaxIters - 1, st, at, 2, MaxCensor, 10) :
        mv \in BOOLEAN, st \in Schedules, at \in Modes }
    \* censorship durations and probabilities
    \cup { Config(Width, 3, 3, FALSE, MaxIters, "Random", "With SWN", 2, tc, pl) :
        tc \in 0..MaxCensor, pl \in {5, 10} }
    \cup { Config(Width, 3, 3, FALSE, MaxIters, "Random", "With SWN", 2, MaxCensor, 0) }
    \* a ring of Width citizens whose edges the generator may rewire
    \cup { [Config(Width, 10, 0, TRUE, MaxIters, "Sequential", "With SWN", 2, MaxCensor, 10)
               EXCEPT !.rewire_prob = p] : p \in {0, 5} }

(***************************************************************************)
(* mesa.space.Grid: a torus; the Moore neighbourhood excludes the centre.  *)
(***************************************************************************)
Cells == { <<x, y>> : x \in 0..(cfg.width - 1), y \in 0..(cfg.height - 1) }

\* coord_iter visits x in the outer and y in the inner loop
CellIndex(c) == c[1] * cfg.height + c[2]

torus_adj(x, y) == <<x % cfg.width, y % cfg.height>>

get_neighborhood(p, radius) ==
    { torus_adj(p[1] + dx, p[2] + dy) : dx \in (-radius)..radius, dy \in (-radius)..radius }
        \ {p}

CitizenIds(ag) == { a \in DOMAIN ag : ag[a].breed = "citizen" }
CopIds(ag) == { a \in DOMAIN ag : ag[a].breed = "cop" }

get_cell_list_contents(ag, cells) == { a \in DOMAIN ag : ag[a].pos \in cells }

\* variant: only a cop keeps a cell from being empty
NoCopInCell(ag, c) == \A a \in DOMAIN ag : ag[a].breed = "cop" => ag[a].pos # c

is_cell_empty(ag, c) == \A a \in DOMAIN ag : ag[a].pos # c

(***************************************************************************)
(* networkx: undirected graphs with edges as pairs <<u, v>>, u < v.        *)
(***************************************************************************)
Edge(u, v) == IF u < v THEN <<u, v>> ELSE <<v, u>>

Adjacent(E, u) == { w \in {e[1] : e \in E} \cup {e[2] : e \in E} : w # u /\ Edge(u, w) \in E }

RECURSIVE Within(_, _, _)
\* nodes at distance <= r from the nodes of S
Within(E, S, r) ==
    IF r = 0 THEN S
    ELSE Within(E, S \cup UNION { Adjacent(E, u) : u \in S }, r - 1)

\* nx.ego_graph: the induced subgraph (a copy) on the nodes within the radius
ego_graph(N, E, n, radius) ==
    LET nodes == Within(E, {n}, radius) \cap N
    IN  [nodes |-> nodes, edges |-> { e \in E : e[1] \in nodes /\ e[2] \in nodes }]

(***************************************************************************)
(* networkx.watts_strogatz_graph(n, k, p): every graph the generator can   *)
(* return, or "NetworkXError".  The call of model.py 165 passes no seed,    *)
(* so the rewiring draws come from the global generator of the random       *)
(* module and not from the model's own generator (self.random).             *)
(***************************************************************************)
complete_graph(n) ==
    [error |-> "none", nodes |-> 0..(n - 1),
     edges |-> { Edge(u, v) : u \in 0..(n - 1), v \in 0..(n - 1) } \ { <<u, u>> : u \in 0..(n - 1) }]

\* connect each node to its k \div 2 nearest neighbours on either side of the ring
ring_lattice(n, k) == { Edge(i, (i + j) % n) : i \in 0..(n - 1), j \in 1..(k \div 2) }

\* the edges (u, v) the rewiring loop visits, neighbour distance in the outer loop
RewireSteps(n, k) ==
    [i \in 1..(n * (k \div 2)) |->
        LET j == ((i - 1) \div n) + 1
            u == (i - 1) % n
        IN  <<u, (u + j) % n>>]

\* one visit: keep the edge (the draw >= p), or move its far end to a node w that is
\* neither u nor adjacent to u; when u is adjacent to every node the rewiring is skipped
RewireOne(E, uv, n, p) ==
    LET u == uv[1]
        v == uv[2]
        targets == { w \in 0..(n - 1) : w # u /\ Edge(u, w) \notin E }
    IN  (IF p < 10 THEN {E} ELSE {})
        \cup (IF p > 0
              THEN IF targets = {} THEN {E}
                   ELSE { (E \ {Edge(u, v)}) \cup {Edge(u, w)} : w \in targets }
              ELSE {})

RECURSIVE Rewire(_, _, _, _, _)
Rewire(Es, steps, i, n, p) ==
    IF i > Len(steps) THEN Es
    ELSE Rewire(UNION { RewireOne(E, steps[i], n, p) : E \in Es }, steps, i + 1, n, p)

watts_strogatz_graph(n, k, p) ==
    IF k > n THEN {[error |-> "NetworkXError", nodes |-> {}, edges |-> {}]}
    ELSE IF k = n THEN {complete_graph(n)}
    ELSE { [error |-> "none",
            nodes |-> {e[1] : e \in ring_lattice(n, k)} \cup {e[2] : e \in ring_lattice(n, k)},
            edges |-> E] :
           E \in Rewire({ring_lattice(n, k)}, RewireSteps(n, k), 1, n, p) }

\* the i-th (from 0) smallest element of S
Nth(S, i) == CHOOSE x \in S : Cardinality({ y \in S : y < x }) = i

\* nx.relabel_nodes(G, dict(zip(G, list_citizen_ids)))
relabel_nodes(g, ids) ==
    [nodes |-> { Nth(ids, i) : i \in g.nodes },
     edges |-> { Edge(Nth(ids, e[1]), Nth(ids, e[2])) : e \in g.edges }]

(***************************************************************************)
(* Model reporters (model.py 215-339).                                     *)
(***************************************************************************)
\* variant: exclude_jailed = False
count_type_with_jailed(ag, condition) ==
    Cardinality({ a \in DOMAIN ag : ag[a].breed # "cop" /\ ag[a].condition = condition })

count_type_citizens(ag, condition) ==
    Cardinality({ a \in DOMAIN ag :
        /\ ag[a].breed # "cop"
        /\ ~(ag[a].jail_sentence > 0)
        /\ ag[a].condition = condition })

count_jailed(ag) ==
    Cardinality({ a \in DOMAIN ag : ag[a].breed = "citizen" /\ ag[a].jail_sentence > 0 })

count_citizens(ag) == Cardinality({ a \in DOMAIN ag : ag[a].breed = "citizen" })

count_cops(ag) == Cardinality({ a \in DOMAIN ag : ag[a].breed = "cop" })

count_agents(ag) ==
    [Quiescent |-> count_type_citizens(ag, "Quiescent"),
     Active |-> count_type_citizens(ag, "Active"),
     Jailed |-> count_jailed(ag)]

get_active_link(cnt) == cnt.active_links

\* active_links / number_of_edges
get_active_link_ratio(cnt, noe) ==
    Frac(cnt.active_links, noe)

get_censored_link(cnt) == cnt.censored_links

JailedIds(ag) == { a \in DOMAIN ag : ag[a].breed = "citizen" /\ ag[a].jail_sentence > 0 }
FreeIds(ag) == { a \in DOMAIN ag : ag[a].breed = "citizen" /\ ag[a].jail_sentence = 0 }

\* the divisor is the model's jail_count field, not a count taken here
get_average_jail_term(ag, cnt) ==
    LET total == SumOver(JailedIds(ag), [a \in JailedIds(ag) |-> ag[a].jail_sentence])
    IN  IF cnt.jail_count = 0 THEN Zero ELSE Frac(total, cnt.jail_count)

get_average_strong_ties_receival(ag) ==
    LET total == SumOver(FreeIds(ag), [a \in FreeIds(ag) |-> ag[a].strong_ties_received])
        count == Cardinality(FreeIds(ag))
    IN  IF total = 0 THEN Zero ELSE Frac(total, count)

get_average_weak_ties_receival(ag) ==
    LET total == SumOver(FreeIds(ag), [a \in FreeIds(ag) |-> ag[a].weak_ties_received])
        count == Cardinality(FreeIds(ag))
    IN  IF total = 0 THEN Zero ELSE Frac(total, count)

\* datacollector.collect: one row of the model reporters (model.py 111-123)
collect(ag, cnt, noe) ==
    [Quiescent |-> count_type_citizens(ag, "Quiescent"),
     Active |-> count_type_citizens(ag, "Active"),
     Jailed |-> count_jailed(ag),
     Citizens |-> count_citizens(ag),
     Cops |-> count_cops(ag),
     AverageJailingTerm |-> get_average_jail_term(ag, cnt),
     AverageStrongReceival |-> get_average_strong_ties_receival(ag),
     AverageWeakReceival |-> get_average_weak_ties_receival(ag),
     ActiveLinks |-> get_active_link(cnt),
     ActivatedLinksRatio |-> get_active_link_ratio(cnt, noe),
     CensoredLinks |-> get_censored_link(cnt)]

(***************************************************************************)
(* EpsteinCivilViolence.__init__                                           *)
(***************************************************************************)
NoRow == [Quiescent |-> 0, Active |-> 0, Jailed |-> 0, Citizens |-> 0, Cops |-> 0,
          AverageJailingTerm |-> Zero, AverageStrongReceival |-> Zero,
          AverageWeakReceival |-> Zero, ActiveLinks |-> 0,
          ActivatedLinksRatio |-> Zero, CensoredLinks |-> 0]

InitCounts == [citizen_count |-> 0, cop_count |-> 0, jail_count |-> 0, active_count |-> 0,
               quiescent_count |-> 0, average_jail_term |-> Zero,
               strong_ties_receival |-> Zero, weak_ties_receival |-> Zero,
               active_links |-> 0, activated_link_ratio |-> Zero, censored_links |-> 0]

EmptyGraph == [nodes |-> {}, censor_steps |-> <<>>]

Init ==
    /\ phase = "new"
    /\ error = "none"
    /\ cfg \in Configs
    /\ agents = <<>>
    /\ G = EmptyGraph
    /\ number_of_edges = 0
    /\ link_to_censor = {}
    /\ to_step = {}
    /\ iteration = 0
    /\ running = FALSE
    /\ counts = InitCounts
    /\ model_vars = NoRow
    /\ jail_at_start = <<>>
    /\ pos_at_start = <<>>
    /\ ego_view = <<>>
    /\ ties_at = <<>>
    /\ activated = {}
    /\ censored_at = <<>>

\* what the two draws of the placement loop allow in a cell (model.py 140-145)
CellKinds ==
    (IF cfg.cop_density > 0 THEN {"cop"} ELSE {})
    \cup (IF cfg.cop_density < 10 /\ cfg.cop_density + cfg.citizen_density > 0
          THEN {"citizen"} ELSE {})
    \cup (IF cfg.cop_density < 10 /\ cfg.cop_density + cfg.citizen_density < 10
          THEN {"empty"} ELSE {})

\* the population is bounded where the densities leave cells empty
Placements ==
    { pl \in [Cells -> CellKinds] :
        \/ Cardinality({ c \in Cells : pl[c] # "empty" }) <= MaxAgents
        \/ "empty" \notin CellKinds }

\* unique_id counts the agents created in the cells visited before
CellOf(pl, id) ==
    CHOOSE c \in Cells :
        /\ pl[c] # "empty"
        /\ Cardinality({ d \in Cells : pl[d] # "empty" /\ CellIndex(d) < CellIndex(c) }) = id

\* Python's None, kept apart from every number a field can hold
None == -1

Cop(p, vision) == [breed |-> "cop", pos |-> p, vision |-> vision]

Citizen(p, hardship, regime_legitimacy, risk_aversion, threshold, vision) ==
    [breed |-> "citizen", pos |-> p, hardship |-> hardship,
     regime_legitimacy |-> regime_legitimacy, risk_aversion |-> risk_aversion,
     threshold |-> threshold, condition |-> "Quiescent", vision |-> vision,
     jail_sentence |-> 0, grievance |-> hardship * (10 - regime_legitimacy),
     arrest_probability |-> None, actives_in_vision |-> None,
     strong_ties_received |-> 0, weak_ties_received |-> 0]

\* the agents the placement loop creates
Population(pl, hs, rs) ==
    LET n == Cardinality({ c \in Cells : pl[c] # "empty" })
    IN  [id \in 0..(n - 1) |->
            LET c == CellOf(pl, id)
            IN  IF pl[c] = "cop" THEN Cop(c, cfg.cop_vision)
                ELSE Citizen(c, hs[id], cfg.legitimacy, rs[id],
                             cfg.active_threshold, cfg.citizen_vision)]

\* __init__ raises e, having created the agents ag
Raise(e, ag) ==
    /\ phase' = "error"
    /\ error' = e
    /\ agents' = ag
    /\ UNCHANGED <<cfg, G, number_of_edges, link_to_censor, to_step, iteration, running,
                   counts, model_vars, jail_at_start, pos_at_start, ego_view, ties_at,
                   activated, censored_at>>

\* the density check of model.py 137
DensityError == cfg.cop_density + cfg.citizen_density > 10

Construct ==
    /\ phase = "new"
    /\ IF DensityError THEN Raise("ValueError", <<>>)
       ELSE \E pl \in Placements :
            LET n == Cardinality({ c \in Cells : pl[c] # "empty" })
            IN  \E hs \in [0..(n - 1) -> Hardships], rs \in [0..(n - 1) -> RiskAversions] :
                LET ag == Population(pl, hs, rs)
                    list_citizen_ids == CitizenIds(ag)
                IN  \E ws \in watts_strogatz_graph(Cardinality(list_citizen_ids),
                                                   cfg.lattice_neighbor, cfg.rewire_prob) :
                    IF ws.error = "NetworkXError" THEN Raise("NetworkXError", ag)
                    ELSE LET g == relabel_nodes(ws, list_citizen_ids)
                             noe == Cardinality(g.edges)
                             row == collect(ag, counts, noe)
                         IN  IF row.ActivatedLinksRatio = ZeroDivisionError
                             THEN Raise("ZeroDivisionError", ag)
                             ELSE /\ phase' = "idle"
                                  /\ error' = "none"
                                  /\ agents' = ag
                                  /\ G' = [nodes |-> g.nodes,
                                           censor_steps |-> [e \in g.edges |-> 0]]
                                  /\ number_of_edges' = noe
                                  /\ running' = TRUE
                                  /\ model_vars' = row
                                  /\ counts' = [counts EXCEPT
                                        !.citizen_count =
                                            count_agents(ag).Quiescent + count_agents(ag).Active
                                            + count_agents(ag).Jailed,
                                        !.cop_count = count_cops(ag)]
                                  /\ censored_at' = [e \in g.edges |-> 0]
                                  /\ ties_at' = [c \in list_citizen_ids |-> 0]
                                  /\ UNCHANGED <<cfg, link_to_censor, to_step, iteration,
                                                 jail_at_start, pos_at_start, ego_view, activated>>

(***************************************************************************)
(* Citizen (agent.py 75-210)                                               *)
(***************************************************************************)
get_agents_by_ids(ag, id_list) == { i \in id_list : i \in CitizenIds(ag) }

\* variant: censored edges stripped, no second ego network
prepare_ego_once(ag, g, unique_id) ==
    LET first == ego_graph(g.nodes, DOMAIN g.censor_steps, unique_id, EgoRadius)
        ebunch == { e \in first.edges : g.censor_steps[e] > 0 }
        ego_network == [nodes |-> first.nodes, edges |-> first.edges \ ebunch]
        degree_1_neighbors == Adjacent(ego_network.edges, unique_id)
        degree_2_neighbors == ego_network.nodes \ degree_1_neighbors
    IN  [ego_network |-> ego_network,
         degree_1_neighbors |-> get_agents_by_ids(ag, degree_1_neighbors),
         degree_2_neighbors |-> get_agents_by_ids(ag, degree_2_neighbors)]

\* ego network of radius 2, censored edges stripped from the copy, ego network again
prepare_ego(ag, g, unique_id) ==
    LET first == ego_graph(g.nodes, DOMAIN g.censor_steps, unique_id, EgoRadius)
        ebunch == { e \in first.edges : g.censor_steps[e] > 0 }
        ego_network == ego_graph(first.nodes, first.edges \ ebunch, unique_id, EgoRadius)
        degree_1_neighbors == Adjacent(ego_network.edges, unique_id)
        degree_2_neighbors == ego_network.nodes \ degree_1_neighbors
    IN  [ego_network |-> ego_network,
         degree_1_neighbors |-> get_agents_by_ids(ag, degree_1_neighbors),
         degree_2_neighbors |-> get_agents_by_ids(ag, degree_2_neighbors)]

update_neighbors(ag, a) ==
    LET neighborhood == get_neighborhood(ag[a].pos, ag[a].vision)
    IN  [neighborhood |-> neighborhood,
         neighbors |-> get_cell_list_contents(ag, neighborhood),
         empty_neighbors |-> { c \in neighborhood : is_cell_empty(ag, c) }]

IsActive(ag, c) == ag[c].condition = "Active" /\ ag[c].jail_sentence = 0

\* 1 - exp(-arrest_prob_constant * n) in thousandths, arrest_prob_constant = 2.3
ArrestProbability(n) ==
    CASE n = 0 -> 0
      [] n = 1 -> 900
      [] n = 2 -> 990
      [] OTHER -> 999

update_network_arrest_probability(ag, a, nb, ego) ==
    LET cops_in_vision == Cardinality({ c \in nb.neighbors : ag[c].breed = "cop" })
        spatial == { c \in nb.neighbors : ag[c].breed = "citizen" /\ IsActive(ag, c) }
        strong == { c \in ego.degree_1_neighbors : IsActive(ag, c) }
        weak == { c \in ego.degree_2_neighbors : IsActive(ag, c) }
        actives_in_vision == 1 + Cardinality(spatial)
                               + cfg.strong_weak_ratio * Cardinality(strong)
                               + Cardinality(weak)
    IN  [ag[a] EXCEPT
            !.strong_ties_received = Cardinality(strong),
            !.weak_ties_received = Cardinality(weak),
            !.actives_in_vision = actives_in_vision,
            !.arrest_probability = ArrestProbability(cops_in_vision \div actives_in_vision)]

\* variant: the plain estimate also counts the Active ties of the ego view
EstimateWithTies(ag, a, nb) ==
    update_network_arrest_probability(ag, a, nb, prepare_ego(ag, G, a))

update_estimated_arrest_probability(ag, a, nb) ==
    LET cops_in_vision == Cardinality({ c \in nb.neighbors : ag[c].breed = "cop" })
        spatial == { c \in nb.neighbors : ag[c].breed = "citizen" /\ IsActive(ag, c) }
        actives_in_vision == 1 + Cardinality(spatial)
    IN  [ag[a] EXCEPT
            !.actives_in_vision = actives_in_vision,
            !.arrest_probability = ArrestProbability(cops_in_vision \div actives_in_vision)]

\* the fields prepare_ego sets on citizen unique_id
EgoFields(unique_id, ego) ==
    [unique_id |-> unique_id,
     ego_network |-> ego.ego_network,
     degree_1_neighbors |-> ego.degree_1_neighbors,
     degree_2_neighbors |-> ego.degree_2_neighbors]

\* variant: only the edges listed with the citizen as their smaller endpoint
EdgesToCensorUnswapped(me, unique_id, ego) ==
    IF me.condition = "Active"
    THEN { f \in ego.ego_network.edges : unique_id = f[1] }
    ELSE {}

\* ego_network.edges(unique_id): the incident edges, listed from the citizen outwards
IncidentEdges(unique_id, ego) ==
    { <<unique_id, v>> : v \in Adjacent(ego.ego_network.edges, unique_id) }

\* variant: the incident edges are stored as listed
EdgesToCensorAsListed(me, unique_id, ego) ==
    IF me.condition = "Active" THEN IncidentEdges(unique_id, ego) ELSE {}

\* the edges an Active citizen puts in the pending set (agent.py 92-96)
EdgesToCensor(me, unique_id, ego) ==
    IF me.condition = "Active"
    THEN { Edge(e[1], e[2]) : e \in IncidentEdges(unique_id, ego) }
    ELSE {}

\* variant: an Active citizen whose net risk outweighs its grievance stands down
DecideWithdraw(me) ==
    LET net_risk == me.risk_aversion * me.arrest_probability
    IN  IF me.grievance * 100 - net_risk > me.threshold * 1000 THEN "Active" ELSE "Quiescent"

\* agent.py 99-101 / 113-115; grievance and net_risk compared in 1/10000
Decide(me) ==
    LET net_risk == me.risk_aversion * me.arrest_probability
    IN  IF me.condition = "Quiescent" /\ me.grievance * 100 - net_risk > me.threshold * 1000
        THEN "Active"
        ELSE me.condition

\* variant: a jailed citizen resumes its rebellion while serving
ServeSentenceAndRebel(me) == [me EXCEPT !.jail_sentence = @ - 1, !.condition = "Active"]

\* agent.py 79-81
ServeSentence(me) == [me EXCEPT !.jail_sentence = @ - 1]

\* variant: an agent with no empty cell in sight pushes into an occupied one
MoveOrPush(me, nb) ==
    IF cfg.movement
    THEN IF nb.empty_neighbors # {} THEN nb.empty_neighbors ELSE nb.neighborhood
    ELSE {me.pos}

\* the cells the agent may end its step in (agent.py 104-106, 117-119, 259-261)
MoveTargets(me, nb) ==
    IF cfg.movement /\ nb.empty_neighbors # {} THEN nb.empty_neighbors ELSE {me.pos}

\* variant: every scheduler activates in any order
AnyOrder(a) == TRUE

\* BaseScheduler and SimultaneousActivation activate in insertion (id) order,
\* RandomActivation in any order
NextInOrder(a) == cfg.schedule_type = "Random" \/ a = Min(to_step)

CitizenStep(a) ==
    /\ phase = "agents"
    /\ a \in to_step
    /\ NextInOrder(a)
    /\ agents[a].breed = "citizen"
    /\ to_step' = to_step \ {a}
    /\ IF agents[a].jail_sentence # 0
       THEN /\ agents' = [agents EXCEPT ![a] = ServeSentence(@)]
            /\ UNCHANGED <<link_to_censor, activated, ego_view, ties_at>>
       ELSE LET nb == update_neighbors(agents, a)
                ego == prepare_ego(agents, G, a)
                swn == cfg.activation_type = "With SWN"
                me == IF swn THEN update_network_arrest_probability(agents, a, nb, ego)
                      ELSE update_estimated_arrest_probability(agents, a, nb)
            IN  /\ link_to_censor' =
                       IF swn THEN link_to_censor \cup EdgesToCensor(me, a, ego)
                       ELSE link_to_censor
                /\ ego_view' = IF swn THEN EgoFields(a, ego) ELSE ego_view
                /\ ties_at' = IF swn THEN [ties_at EXCEPT ![a] = iteration + 1] ELSE ties_at
                /\ activated' = IF Decide(me) # me.condition THEN activated \cup {a}
                                 ELSE activated
                /\ \E new_pos \in MoveTargets(me, nb) :
                       agents' = [agents EXCEPT
                                     ![a] = [me EXCEPT !.condition = Decide(me),
                                                       !.pos = new_pos]]
    /\ UNCHANGED <<phase, error, cfg, G, number_of_edges, iteration, running, counts,
                   model_vars, jail_at_start, pos_at_start, censored_at>>

(***************************************************************************)
(* Cop (agent.py 240-273)                                                  *)
(***************************************************************************)
\* variant: the cop picks among all citizens in vision
AnyCitizenNeighbors(ag, k) ==
    { c \in update_neighbors(ag, k).neighbors : ag[c].breed = "citizen" }

active_neighbors(ag, k) ==
    { c \in update_neighbors(ag, k).neighbors : ag[c].breed = "citizen" /\ IsActive(ag, c) }

\* variant: the arrested citizen gets its sentence and stays Active
ArrestKeepsActive(ag, arrestee, sentence) == [ag EXCEPT ![arrestee].jail_sentence = sentence]

\* variant: the arrest writes the sentence and the wrong condition
ArrestAsActive(ag, arrestee, sentence) ==
    [ag EXCEPT ![arrestee].jail_sentence = sentence, ![arrestee].condition = "Active"]

\* agent.py 257-258
Arrest(ag, arrestee, sentence) ==
    [ag EXCEPT ![arrestee].jail_sentence = sentence, ![arrestee].condition = "Quiescent"]

CopStep(k) ==
    /\ phase = "agents"
    /\ k \in to_step
    /\ NextInOrder(k)
    /\ agents[k].breed = "cop"
    /\ to_step' = to_step \ {k}
    /\ LET nb == update_neighbors(agents, k)
       IN  \E new_pos \in MoveTargets(agents[k], nb) :
               IF active_neighbors(agents, k) # {}
               THEN \E arrestee \in active_neighbors(agents, k),
                       sentence \in 0..cfg.max_jail_term :
                        agents' = [Arrest(agents, arrestee, sentence) EXCEPT ![k].pos = new_pos]
               ELSE agents' = [agents EXCEPT ![k].pos = new_pos]
    /\ UNCHANGED <<phase, error, cfg, G, number_of_edges, link_to_censor, iteration, running,
                   counts, model_vars, jail_at_start, pos_at_start, ego_view, ties_at,
                   activated, censored_at>>

(***************************************************************************)
(* EpsteinCivilViolence.step (model.py 175-213)                            *)
(***************************************************************************)
\* variant: the last tick of a countdown is never taken off
DecayAboveOne(censor_steps) ==
    [e \in DOMAIN censor_steps |->
        IF censor_steps[e] > 1 THEN censor_steps[e] - 1 ELSE censor_steps[e]]

\* variant: the countdowns are left as the last resolution set them
DecayNever(censor_steps) == censor_steps

\* model.py 181-183
Decay(censor_steps) ==
    [e \in DOMAIN censor_steps |->
        IF censor_steps[e] > 0 THEN censor_steps[e] - 1 ELSE censor_steps[e]]

\* variant: a censored edge is taken out of the graph
CensorByRemoval(censor_steps, chosen, t_censor) ==
    [e \in DOMAIN censor_steps \ chosen |-> censor_steps[e]]

\* variant: the resolution also restarts every countdown that is still running
CensorAndRestart(censor_steps, chosen, t_censor) ==
    [e \in DOMAIN censor_steps |->
        IF e \in chosen \/ censor_steps[e] > 0 THEN t_censor ELSE censor_steps[e]]

\* model.py 192-194 for the edges whose draw succeeded
Censor(censor_steps, chosen, t_censor) ==
    [e \in DOMAIN censor_steps |-> IF e \in chosen THEN t_censor ELSE censor_steps[e]]

\* the sets of pending edges the draws of model.py 191-193 can pick
Draws(pending, censor_steps, p_link_censor) ==
    LET candidates == { e \in pending : censor_steps[e] = 0 }
    IN  { chosen \in SUBSET candidates :
            /\ p_link_censor = 0 => chosen = {}
            /\ p_link_censor = 10 => chosen = candidates }

\* decay, then schedule.step() starts
StepBegin ==
    /\ phase = "idle"
    /\ running
    /\ counts' = [counts EXCEPT !.censored_links = 0]
    /\ G' = [G EXCEPT !.censor_steps = Decay(@)]
    /\ to_step' = DOMAIN agents
    /\ jail_at_start' = [c \in CitizenIds(agents) |-> agents[c].jail_sentence]
    /\ pos_at_start' = [a \in DOMAIN agents |-> agents[a].pos]
    /\ activated' = {}
    /\ phase' = "agents"
    /\ UNCHANGED <<error, cfg, agents, number_of_edges, link_to_censor, iteration, running,
                   model_vars, ego_view, ties_at, censored_at>>

\* model.py 202-207
UpdateCounts(cnt, ag) ==
    LET c1 == [cnt EXCEPT !.active_count = count_type_citizens(ag, "Active"),
                          !.quiescent_count = count_type_citizens(ag, "Quiescent"),
                          !.jail_count = count_jailed(ag)]
    IN  [c1 EXCEPT !.average_jail_term = get_average_jail_term(ag, c1),
                   !.strong_ties_receival = get_average_strong_ties_receival(ag),
                   !.weak_ties_receival = get_average_weak_ties_receival(ag)]

\* variant: the run stops as soon as the counter reaches max_iters
StopAtCeiling(it, run) == IF it >= cfg.max_iters THEN FALSE ELSE run

\* model.py 212-213: the running flag after the iteration counter became it
StillRunning(it, run) == IF it > cfg.max_iters THEN FALSE ELSE run

\* schedule.step() is over: resolve and clear the pending set, collect, count
StepEnd ==
    /\ phase = "agents"
    /\ to_step = {}
    /\ \E chosen \in Draws(link_to_censor, G.censor_steps, cfg.p_link_censor) :
        LET c1 == [counts EXCEPT !.active_links = Cardinality(link_to_censor)]
            c2 == [c1 EXCEPT !.activated_link_ratio = get_active_link_ratio(c1, number_of_edges),
                             !.censored_links = @ + Cardinality(chosen)]
        IN  /\ G' = [G EXCEPT !.censor_steps = Censor(@, chosen, cfg.t_censor)]
            /\ censored_at' = [e \in DOMAIN censored_at |->
                                  IF e \in chosen THEN iteration + 1 ELSE censored_at[e]]
            /\ model_vars' = collect(agents, c2, number_of_edges)
            /\ counts' = UpdateCounts(c2, agents)
    /\ link_to_censor' = {}
    /\ iteration' = iteration + 1
    /\ running' = StillRunning(iteration + 1, running)
    /\ phase' = "idle"
    /\ jail_at_start' = <<>>
    /\ pos_at_start' = <<>>
    /\ activated' = {}
    /\ UNCHANGED <<error, cfg, agents, number_of_edges, to_step, ego_view, ties_at>>

Next ==
    \/ Construct
    \/ StepBegin
    \/ \E a \in DOMAIN agents : CitizenStep(a)
    \/ \E k \in DOMAIN agents : CopStep(k)
    \/ StepEnd

Spec == Init /\ [][Next]_vars

\* Runs to their end: the runner calls step() while running is True, and every
\* step runs to its end.  The constructor arguments are those of Configs without
\* the network ("Without SWN"), under every activation policy, with and without
\* movement.
LiveInit == Init /\ cfg.activation_type = "Without SWN"

LiveSpec == LiveInit /\ [][Next]_vars /\ WF_vars(Next)

(***************************************************************************)
(* Citizen.prepare_ego on every network of up to MaxNodes citizens and      *)
(* every choice of censored edges.                                          *)
(***************************************************************************)
AllEdges(N) == { Edge(u, v) : u \in N, v \in N } \ { <<u, u>> : u \in N }

EgoInit ==
    /\ phase = "ego"
    /\ error = "none"
    /\ cfg = Config(MaxNodes, 10, 0, FALSE, MaxIters, "Sequential", "With SWN", 2, MaxCensor, 10)
    /\ agents = [i \in 0..(MaxNodes - 1) |->
                    Citizen(<<i, 0>>, 5, cfg.legitimacy, 9, cfg.active_threshold,
                            cfg.citizen_vision)]
    /\ \E E \in SUBSET AllEdges(DOMAIN agents) :
          \E censor_steps \in [E -> {0, MaxCensor}] :
              /\ G = [nodes |-> DOMAIN agents, censor_steps |-> censor_steps]
              /\ number_of_edges = Cardinality(E)
              /\ censored_at = [e \in E |-> 0]
    /\ link_to_censor = {}
    /\ to_step = {}
    /\ iteration = 0
    /\ running = TRUE
    /\ counts = InitCounts
    /\ model_vars = NoRow
    /\ jail_at_start = <<>>
    /\ pos_at_start = <<>>
    /\ ego_view = <<>>
    /\ ties_at = [c \in 0..(MaxNodes - 1) |-> 0]
    /\ activated = {}

\* agent.py 124-135: the call sets ego_network and the two tie lists of the citizen
PrepareEgo(c) ==
    /\ phase = "ego"
    /\ c \in CitizenIds(agents)
    /\ ego_view' = EgoFields(c, prepare_ego(agents, G, c))
    /\ UNCHANGED <<phase, error, cfg, agents, G, number_of_edges, link_to_censor, to_step,
                   iteration, running, counts, model_vars, jail_at_start, pos_at_start,
                   ties_at, activated, censored_at>>

EgoNext == \E c \in DOMAIN agents : PrepareEgo(c)

EgoSpec == EgoInit /\ [][EgoNext]_vars

(***************************************************************************)
(* Properties.                                                             *)
(***************************************************************************)
Built == phase \in {"idle", "agents"}

Edges == DOMAIN G.censor_steps

\* the non-censored edges of the network incident to citizen c
LiveIncident(c) == { e \in Edges : c \in {e[1], e[2]} /\ G.censor_steps[e] = 0 }

\* decays of the edge countdowns performed so far
Decays == IF phase = "agents" THEN iteration + 1 ELSE iteration

\* the edges of the ego view citizen c computes in the current state
EgoEdges(c) == prepare_ego(agents, G, c).ego_network.edges

\* C1: a citizen's condition changes only from Quiescent to Active in its own step,
\* or from Active to Quiescent when a cop that has it among its active neighbours
\* arrests it; no other step changes it.
C1_OnlyArrestQuiets ==
    [][\A c \in CitizenIds(agents) :
          agents'[c].condition # agents[c].condition =>
              \/ /\ agents[c].condition = "Quiescent"
                 /\ agents'[c].condition = "Active"
                 /\ CitizenStep(c)
              \/ /\ agents[c].condition = "Active"
                 /\ agents'[c].condition = "Quiescent"
                 /\ \E k \in CopIds(agents) :
                        CopStep(k) /\ c \in active_neighbors(agents, k)]_vars

\* an arrested citizen (it was Active, it is Quiescent in jail) beside an Active one
C1_Witness ==
    /\ phase = "agents"
    /\ \E c, d \in CitizenIds(agents) :
          /\ agents[c].jail_sentence > 0
          /\ agents[c].condition = "Quiescent"
          /\ agents[d].condition = "Active"
          /\ d \notin to_step

\* C2: while a citizen's jail countdown is > 0 no step changes its condition or its
\* position, and its own step changes nothing but the countdown, which it decrements.
C2_JailedFrozen ==
    [][\A c \in CitizenIds(agents) :
          agents[c].jail_sentence > 0 =>
              /\ agents'[c].condition = agents[c].condition
              /\ agents'[c].pos = agents[c].pos
              /\ CitizenStep(c) =>
                    /\ agents' = [agents EXCEPT ![c].jail_sentence = @ - 1]
                    /\ link_to_censor' = link_to_censor]_vars

\* a citizen still in jail after its own step, with a cop looking at it
C2_Witness ==
    /\ phase = "agents"
    /\ \E c \in CitizenIds(agents), k \in CopIds(agents) :
          /\ c \notin to_step
          /\ k \in to_step
          /\ jail_at_start[c] > 1
          /\ agents[c].jail_sentence > 0
          /\ c \in update_neighbors(agents, k).neighbors

\* C3: a countdown that is j > 0 when a step begins is j until the citizen is
\* activated and j - 1 from then to the end of the step, and a countdown increases
\* only when a cop that has the citizen among its active neighbours arrests it.
C3_SentenceCountsDown ==
    /\ [](phase = "agents" =>
            \A c \in DOMAIN jail_at_start :
                jail_at_start[c] > 0 =>
                    agents[c].jail_sentence =
                        IF c \in to_step THEN jail_at_start[c] ELSE jail_at_start[c] - 1)
    /\ [][\A c \in CitizenIds(agents) :
            agents'[c].jail_sentence > agents[c].jail_sentence =>
                \E k \in CopIds(agents) :
                    CopStep(k) /\ c \in active_neighbors(agents, k)]_vars

\* the end of a step that a citizen began in jail, every cop having acted, one beside it
C3_Witness ==
    /\ phase = "agents"
    /\ to_step = {}
    /\ \E c \in DOMAIN jail_at_start, k \in CopIds(agents) :
          /\ jail_at_start[c] > 0
          /\ c \in update_neighbors(agents, k).neighbors

\* C4: construction fails whenever cop_density + citizen_density >= 1.
C4_DensitySumOneFails ==
    (phase # "new" /\ cfg.cop_density + cfg.citizen_density >= 10) => phase = "error"

\* C5 as stated: at the end of the activations of a tick, the non-censored incident
\* edges of every citizen that turned Active in that tick are in the pending set.
C5_ActivationPendsEdges ==
    (phase = "agents" /\ to_step = {} /\ cfg.activation_type = "With SWN") =>
        \A c \in activated : LiveIncident(c) \subseteq link_to_censor

\* C5 amended: in network mode a non-jailed citizen that is Active when its step
\* begins puts its non-censored incident edges in the pending set, a citizen that is
\* Quiescent when its step begins adds none, the pending set only grows until the
\* resolution, and with p_link_censor = 1 the resolution sets the countdown of every
\* pending edge to t_censor.
C5_ActiveCitizenPendsEdges ==
    [][/\ \A c \in CitizenIds(agents) :
            (CitizenStep(c) /\ agents[c].jail_sentence = 0) =>
                IF cfg.activation_type = "With SWN" /\ agents[c].condition = "Active"
                THEN link_to_censor' = link_to_censor \cup LiveIncident(c)
                ELSE link_to_censor' = link_to_censor
       /\ (phase = "agents" /\ phase' = "agents") => link_to_censor \subseteq link_to_censor'
       /\ (StepEnd /\ cfg.p_link_censor = 10) =>
            \A e \in link_to_censor : G'.censor_steps[e] = cfg.t_censor]_vars

\* the resolution has just censored a pending edge for t_censor > 0 ticks
C5_Witness ==
    /\ phase = "idle"
    /\ cfg.p_link_censor = 10
    /\ cfg.t_censor > 0
    /\ \E e \in Edges : censored_at[e] = iteration /\ G.censor_steps[e] = cfg.t_censor

\* C6: an edge censored by the resolution of tick t, with t_censor >= 1, has countdown
\* t_censor - d after d < t_censor further decays and is then in no citizen's ego view;
\* in the activation phase of tick t + t_censor its countdown is 0 and it is in the ego
\* views of both its endpoints.
C6_CensoredEdgeHiddenThenRestored ==
    Built =>
        \A e \in Edges :
            (censored_at[e] > 0 /\ cfg.t_censor >= 1) =>
                LET d == Decays - censored_at[e]
                IN  /\ d < cfg.t_censor =>
                        /\ G.censor_steps[e] = cfg.t_censor - d
                        /\ phase = "agents" =>
                              \A c \in CitizenIds(agents) : e \notin EgoEdges(c)
                    /\ (d = cfg.t_censor /\ phase = "agents") =>
                        /\ G.censor_steps[e] = 0
                        /\ e \in EgoEdges(e[1]) /\ e \in EgoEdges(e[2])

\* an edge censored for MaxCensor ticks is back in the ego views
C6_Witness ==
    /\ phase = "agents"
    /\ cfg.t_censor = MaxCensor
    /\ \E e \in Edges :
          /\ censored_at[e] > 0
          /\ Decays - censored_at[e] = cfg.t_censor
          /\ e \in EgoEdges(e[1])

\* C7: once the model is built no step changes the node set or the edge set of the
\* network, and number_of_edges is the size of the edge set.
C7_TopologyFixed ==
    /\ [](Built => number_of_edges = Cardinality(Edges) /\ G.nodes = CitizenIds(agents))
    /\ [][Built => (G'.nodes = G.nodes /\ DOMAIN G'.censor_steps = Edges)]_vars

\* a non-jailed citizen has computed its ego view while one of its edges is censored
C7_Witness ==
    /\ phase = "agents"
    /\ \E e \in Edges, c \in CitizenIds(agents) :
          /\ G.censor_steps[e] > 0
          /\ c \in {e[1], e[2]}
          /\ c \notin to_step
          /\ jail_at_start[c] = 0

\* the mean jail term over the citizens in jail now
MeanJailTerm(ag) ==
    IF JailedIds(ag) = {} THEN Zero
    ELSE Frac(SumOver(JailedIds(ag), [a \in JailedIds(ag) |-> ag[a].jail_sentence]),
              Cardinality(JailedIds(ag)))

\* C8: the mean jail term in the row collected by a step is the sum of the countdowns
\* of the citizens in jail divided by their number, and 0 when nobody is in jail.
C8_ReportedMeanJailTerm ==
    phase = "idle" => RatEq(model_vars.AverageJailingTerm, MeanJailTerm(agents))

\* C9: no average or ratio query fails on a zero denominator, at construction or later.
C9_QueriesDefined ==
    /\ error # "ZeroDivisionError"
    /\ Built =>
          /\ model_vars.AverageJailingTerm # ZeroDivisionError
          /\ model_vars.AverageStrongReceival # ZeroDivisionError
          /\ model_vars.AverageWeakReceival # ZeroDivisionError
          /\ model_vars.ActivatedLinksRatio # ZeroDivisionError

\* C10: a population of one citizen and no cop, with legitimacy 0 and threshold 0, is
\* constructed, and after its first step the citizen is Active with arrest probability 0.
C10_LoneCitizenActivates ==
    (/\ phase # "new"
     /\ count_citizens(agents) = 1
     /\ count_cops(agents) = 0
     /\ cfg.legitimacy = 0
     /\ cfg.active_threshold = 0) =>
        /\ phase # "error"
        /\ iteration >= 1 =>
              \A c \in CitizenIds(agents) :
                  agents[c].condition = "Active" /\ agents[c].arrest_probability = 0

\* C11: the parameters and the draws of the model's seeded generator (the placement,
\* hardship and risk aversion of every agent) fix the network: every graph the
\* small-world generator can return for this population is the graph of this run.
C11_SeedFixesTopology ==
    Built =>
        \A ws \in watts_strogatz_graph(count_citizens(agents), cfg.lattice_neighbor,
                                       cfg.rewire_prob) :
            /\ ws.error = "none"
            /\ DOMAIN G.censor_steps = relabel_nodes(ws, CitizenIds(agents)).edges

\* C12: the iteration counter changes only by a model step, which adds exactly 1;
\* running is True exactly while the counter has not exceeded max_iters, so it
\* becomes False at the step that takes the counter past max_iters and at no other
\* step, it never becomes True again, and every run that was built reaches that step.
C12_RunTerminates ==
    /\ [](Built => (running <=> iteration <= cfg.max_iters))
    /\ [][/\ StepEnd => iteration' = iteration + 1
          /\ iteration' # iteration => StepEnd
          /\ (running /\ ~running') =>
                (StepEnd /\ iteration <= cfg.max_iters /\ iteration' > cfg.max_iters)
          /\ (Built /\ ~running) => ~running']_vars
    /\ (Built ~> (Built /\ ~running))

\* the run has stopped at the first step that took the counter past max_iters
C12_Witness ==
    /\ phase = "idle"
    /\ ~running
    /\ cfg.max_iters >= 2
    /\ iteration = cfg.max_iters + 1

\* the citizens in cop k's vision neighbourhood that are Active and not in jail
ActiveInVision(k) ==
    { c \in CitizenIds(agents) :
        /\ agents[c].pos \in get_neighborhood(agents[k].pos, agents[k].vision)
        /\ agents[c].condition = "Active"
        /\ agents[c].jail_sentence = 0 }

\* C13: a cop's step changes the fields of at most one citizen, which is in the cop's
\* vision neighbourhood, Active and not in jail when the cop acts, and is Quiescent
\* with a countdown in 0..max_jail_term afterwards; with no such citizen in vision
\* the cop's step changes no citizen.
C13_CopArrestsOneActiveInVision ==
    [][\A k \in CopIds(agents) :
          CopStep(k) =>
              LET changed == { c \in CitizenIds(agents) : agents'[c] # agents[c] }
              IN  /\ Cardinality(changed) <= 1
                  /\ changed \subseteq ActiveInVision(k)
                  /\ \A c \in changed :
                        /\ agents'[c].condition = "Quiescent"
                        /\ agents'[c].jail_sentence \in 0..cfg.max_jail_term
                        /\ agents'[c] = [agents[c] EXCEPT
                                            !.condition = "Quiescent",
                                            !.jail_sentence = agents'[c].jail_sentence]
                  /\ ActiveInVision(k) = {} => changed = {}]_vars

\* a citizen that rose in this tick was arrested for the longest term, while another
\* that rose stays Active out of the sight of every cop, all cops having acted
C13_Witness ==
    /\ phase = "agents"
    /\ CopIds(agents) \cap to_step = {}
    /\ \E c \in activated :
          /\ agents[c].condition = "Quiescent"
          /\ agents[c].jail_sentence = cfg.max_jail_term
    /\ \E d \in activated :
          /\ agents[d].condition = "Active"
          /\ \A k \in CopIds(agents) : d \notin ActiveInVision(k)

\* C14: every agent is in one cell of the grid and no two agents share a cell; an
\* agent's cell changes only in its own step, to a cell no agent occupies in the state
\* its step starts from, which holds the moves of the agents activated before it.
C14_OneAgentPerCell ==
    /\ [](Built =>
            \A a \in DOMAIN agents :
                /\ agents[a].pos \in Cells
                /\ \A b \in DOMAIN agents : a # b => agents[a].pos # agents[b].pos)
    /\ [][\A a \in DOMAIN agents :
            agents'[a].pos # agents[a].pos =>
                /\ CitizenStep(a) \/ CopStep(a)
                /\ \A b \in DOMAIN agents : agents[b].pos # agents'[a].pos]_vars

\* an agent has moved into the cell another agent left earlier in the same tick,
\* and an agent not yet activated has that agent in a cell that was empty
C14_Witness ==
    /\ phase = "agents"
    /\ \E a, b \in DOMAIN agents \ to_step :
          /\ a # b
          /\ agents[a].pos # pos_at_start[a]
          /\ agents[b].pos = pos_at_start[a]
    /\ \E c \in to_step, d \in DOMAIN agents \ to_step :
          /\ agents[d].pos # pos_at_start[d]
          /\ agents[d].pos \in get_neighborhood(agents[c].pos, agents[c].vision)

\* the cells of agent a's vision neighbourhood that no agent occupies
EmptyInVision(a) ==
    { c \in get_neighborhood(agents[a].pos, agents[a].vision) :
        \A b \in DOMAIN agents : agents[b].pos # c }

FullGrid == Cardinality(DOMAIN agents) = Cardinality(Cells)

\* C15: the step of an agent, citizen or cop, whose vision neighbourhood holds no empty
\* cell leaves the agent where it is, with movement enabled or not; on a grid whose
\* every cell is occupied no step changes any agent's position.
C15_BoxedInAgentStays ==
    [][/\ \A a \in DOMAIN agents :
            ((CitizenStep(a) \/ CopStep(a)) /\ EmptyInVision(a) = {}) =>
                agents'[a].pos = agents[a].pos
       /\ (Built /\ FullGrid) =>
            \A a \in DOMAIN agents : agents'[a].pos = agents[a].pos]_vars

\* with movement enabled, a full grid of cops and citizens has run to its end
C15_Witness ==
    /\ cfg.movement
    /\ phase = "idle"
    /\ FullGrid
    /\ ~running
    /\ CopIds(agents) # {}
    /\ CitizenIds(agents) # {}

\* the cops in citizen c's vision neighbourhood
CopsInVision(c) ==
    { k \in CopIds(agents) :
        agents[k].pos \in get_neighborhood(agents[c].pos, agents[c].vision) }

\* C16: in every state of a built model, the one right after construction included,
\* every citizen's arrest_probability is a number in [0, 1] (0..1000 thousandths); the
\* estimate a citizen makes in its step is 0 when no cop is in its vision, and is 0
\* exactly when floor(cops_in_vision / actives_in_vision) is 0.
C16_ArrestProbabilityInUnitInterval ==
    /\ [](Built => \A c \in CitizenIds(agents) : agents[c].arrest_probability \in 0..1000)
    /\ [][\A c \in CitizenIds(agents) :
            (CitizenStep(c) /\ agents[c].jail_sentence = 0) =>
                /\ CopsInVision(c) = {} => agents'[c].arrest_probability = 0
                /\ agents'[c].arrest_probability = 0 <=>
                      Cardinality(CopsInVision(c)) \div agents'[c].actives_in_vision = 0]_vars

\* the edges of the network whose countdown is 0
LiveEdges == { e \in Edges : G.censor_steps[e] = 0 }

\* the citizens at distance exactly d from citizen c over the edges with countdown 0
TiesAt(c, d) == (Within(LiveEdges, {c}, d) \ Within(LiveEdges, {c}, d - 1)) \cap CitizenIds(agents)

\* those of the citizens S that are Active and not in jail
ActiveAmong(S) == { d \in S : agents[d].condition = "Active" /\ agents[d].jail_sentence = 0 }

\* the citizens in citizen c's vision neighbourhood
CitizensInVision(c) ==
    { d \in CitizenIds(agents) :
        agents[d].pos \in get_neighborhood(agents[c].pos, agents[c].vision) }

\* C17: in network mode the step of a non-jailed citizen sets actives_in_vision to
\* 1 + the Active non-jailed spatial neighbours + strong_weak_ratio times the Active
\* non-jailed strong ties + the Active non-jailed weak ties, the strong (weak) ties
\* being the other citizens at non-censored distance 1 (exactly 2); the citizen is in
\* neither of its tie sets.
C17_SelfCountedOnce ==
    [][\A c \in CitizenIds(agents) :
          (CitizenStep(c) /\ agents[c].jail_sentence = 0
                          /\ cfg.activation_type = "With SWN") =>
              /\ agents'[c].actives_in_vision =
                    1 + Cardinality(ActiveAmong(CitizensInVision(c)))
                      + cfg.strong_weak_ratio * Cardinality(ActiveAmong(TiesAt(c, 1)))
                      + Cardinality(ActiveAmong(TiesAt(c, 2)))
              /\ c \notin prepare_ego(agents, G, c).degree_1_neighbors
              /\ c \notin prepare_ego(agents, G, c).degree_2_neighbors]_vars

\* C18: for every network and every choice of censored edges, the ego view of a
\* citizen is the subgraph of the edges with countdown 0 on the nodes within 2 hops
\* of the citizen over such edges; its strong ties are the nodes one such hop away,
\* and a node not within 2 such hops is in neither tie list.
C18_EgoViewIsLiveTwoHop ==
    (phase = "ego" /\ DOMAIN ego_view # {}) =>
        LET c == ego_view.unique_id
            reach == Within(LiveEdges, {c}, EgoRadius)
        IN  /\ ego_view.ego_network.nodes = reach
            /\ ego_view.ego_network.edges =
                    { e \in LiveEdges : e[1] \in reach /\ e[2] \in reach }
            /\ ego_view.degree_1_neighbors = TiesAt(c, 1)
            /\ ego_view.degree_2_neighbors \ {c} = TiesAt(c, 2)
            /\ \A d \in G.nodes \ reach :
                    d \notin ego_view.degree_1_neighbors \cup ego_view.degree_2_neighbors

\* the ego view of a citizen with a weak tie, a neighbour behind a censored edge and a
\* node that is within 2 hops over censored edges only
C18_Witness ==
    /\ phase = "ego"
    /\ DOMAIN ego_view # {}
    /\ TiesAt(ego_view.unique_id, 2) # {}
    /\ \E d \in G.nodes :
          /\ Edge(ego_view.unique_id, d) \in Edges \ LiveEdges
          /\ d \in ego_view.degree_2_neighbors
    /\ \E d \in Within(Edges, {ego_view.unique_id}, EgoRadius) :
          d \notin ego_view.ego_network.nodes

\* C19: a model step first takes 1 off every edge countdown that is > 0, then
\* activates every agent exactly once (in id order under Sequential and Simultaneous,
\* in any order under Random) without touching the countdowns, the metrics or the
\* iteration counter, then resolves the pending set (only pending edges with countdown
\* 0 get t_censor), clears it, collects a row that shows the resolution, and adds 1 to
\* the iteration counter; between steps the pending set is empty.
C19_StepOrder ==
    /\ [](phase = "idle" => link_to_censor = {})
    /\ [][/\ StepBegin =>
                /\ G'.censor_steps =
                      [e \in Edges |-> IF G.censor_steps[e] > 0 THEN G.censor_steps[e] - 1
                                       ELSE G.censor_steps[e]]
                /\ to_step' = DOMAIN agents
                /\ agents' = agents
                /\ iteration' = iteration
          /\ \A a \in DOMAIN agents :
                (CitizenStep(a) \/ CopStep(a)) =>
                    /\ a \in to_step
                    /\ to_step' = to_step \ {a}
                    /\ cfg.schedule_type \in {"Sequential", "Simultaneous"} =>
                          \A b \in to_step : a <= b
                    /\ G' = G
                    /\ model_vars' = model_vars
                    /\ iteration' = iteration
          /\ agents' # agents =>
                (phase = "new" \/ \E a \in DOMAIN agents : CitizenStep(a) \/ CopStep(a))
          /\ StepEnd =>
                /\ to_step = {}
                /\ agents' = agents
                /\ \A e \in Edges :
                      G'.censor_steps[e] # G.censor_steps[e] =>
                          /\ e \in link_to_censor
                          /\ G.censor_steps[e] = 0
                          /\ G'.censor_steps[e] = cfg.t_censor
                /\ link_to_censor' = {}
                /\ model_vars'.ActiveLinks = Cardinality(link_to_censor)
                /\ cfg.t_censor > 0 =>
                      model_vars'.CensoredLinks =
                          Cardinality({ e \in Edges : G'.censor_steps[e] # G.censor_steps[e] })
                /\ model_vars'.Active = count_type_citizens(agents, "Active")
                /\ model_vars'.Jailed = count_jailed(agents)
                /\ iteration' = iteration + 1]_vars

\* three steps under the Simultaneous policy: the second censored an edge and the
\* third took 1 off its countdown
C19_Witness ==
    /\ phase = "idle"
    /\ cfg.schedule_type = "Simultaneous"
    /\ iteration = 3
    /\ \E e \in Edges : censored_at[e] = 2 /\ G.censor_steps[e] = cfg.t_censor - 1

\* C20: the pending set holds only edges of the network, each as the pair
\* (smaller id, larger id); in network mode the step of a non-jailed citizen that is
\* Active when activated adds exactly its incident edges with countdown 0 that are
\* not pending yet, and the step of a jailed citizen, of a Quiescent citizen or of a
\* cop, and any step without the network, adds none.
C20_PendingIsCanonicalEdges ==
    /\ [](Built => \A e \in link_to_censor : e[1] < e[2] /\ e \in Edges)
    /\ [][/\ \A c \in CitizenIds(agents) :
                CitizenStep(c) =>
                    /\ link_to_censor \subseteq link_to_censor'
                    /\ link_to_censor' \ link_to_censor =
                          IF /\ cfg.activation_type = "With SWN"
                             /\ agents[c].jail_sentence = 0
                             /\ agents[c].condition = "Active"
                          THEN { e \in LiveEdges : c \in {e[1], e[2]} } \ link_to_censor
                          ELSE {}
          /\ \A k \in CopIds(agents) : CopStep(k) => link_to_censor' = link_to_censor]_vars

\* at resolution time an edge is pending that a free Active citizen added and whose
\* other end began the tick in jail
C20_Witness ==
    /\ phase = "agents"
    /\ to_step = {}
    /\ \E e \in link_to_censor :
          \E c \in {e[1], e[2]}, d \in {e[1], e[2]} :
              /\ jail_at_start[c] > 0
              /\ jail_at_start[d] = 0
              /\ agents[d].condition = "Active"
              /\ d \notin activated

\* the edges whose countdown the resolution of the step just taken has set
SetByResolution == { e \in Edges : censored_at'[e] = iteration + 1 }

\* C21: the resolution sets the countdown of an edge to t_censor only if the edge is
\* pending and its countdown is 0, and leaves every other countdown, those > 0
\* included, as it is; the count of newly censored edges it reports is the number of
\* edges it set, which is every pending edge when p_link_censor = 1 and none when
\* p_link_censor = 0.
C21_ResolutionDrawsLiveEdgesOnce ==
    [][StepEnd =>
          /\ SetByResolution \subseteq { e \in link_to_censor : G.censor_steps[e] = 0 }
          /\ \A e \in Edges :
                G'.censor_steps[e] =
                    IF e \in SetByResolution THEN cfg.t_censor ELSE G.censor_steps[e]
          /\ model_vars'.CensoredLinks = Cardinality(SetByResolution)
          /\ counts'.censored_links = Cardinality(SetByResolution)
          /\ cfg.p_link_censor = 10 => SetByResolution = link_to_censor
          /\ cfg.p_link_censor = 0 => SetByResolution = {}]_vars

\* with p_link_censor = 1/2 a resolution has censored one pending edge and spared
\* another while a third edge was in the middle of its countdown
C21_Witness ==
    /\ phase = "idle"
    /\ cfg.p_link_censor = 5
    /\ model_vars.CensoredLinks > 0
    /\ model_vars.ActiveLinks > model_vars.CensoredLinks
    /\ \E e \in Edges : censored_at[e] = iteration /\ G.censor_steps[e] = cfg.t_censor
    /\ \E e \in Edges : censored_at[e] < iteration /\ G.censor_steps[e] > 0

\* C22: in network mode the tie counters of every citizen that the means of a step's
\* row are taken over (the citizens not in jail at the collection) were computed in
\* that step.
C22_TieCountersAreCurrent ==
    (phase = "idle" /\ iteration >= 1 /\ cfg.activation_type = "With SWN") =>
        \A c \in FreeIds(agents) : ties_at[c] = iteration

\* C23: in every state, under every activation policy, a citizen whose jail countdown
\* is > 0 is Quiescent.
C23_JailedIsQuiescent ==
    Built =>
        \A c \in CitizenIds(agents) :
            agents[c].jail_sentence > 0 => agents[c].condition = "Quiescent"

\* under the Random policy a citizen was arrested in this tick before its own step,
\* beside a free Active citizen
C23_Witness ==
    /\ phase = "agents"
    /\ cfg.schedule_type = "Random"
    /\ \E c \in CitizenIds(agents) \cap to_step, d \in CitizenIds(agents) :
          /\ agents[c].jail_sentence > 0
          /\ jail_at_start[c] = 0
          /\ agents[d].condition = "Active"

\* C24: in every collected row the Active, Quiescent and Jailed counts add up to the
\* number of citizens, the row's citizen and cop numbers are those of the agents, and
\* no step changes which agents are citizens and which are cops; the totals stored at
\* construction stay those numbers.
C24_CountsAddUp ==
    /\ [](Built =>
            /\ model_vars.Active + model_vars.Quiescent + model_vars.Jailed
                  = model_vars.Citizens
            /\ model_vars.Citizens = Cardinality(CitizenIds(agents))
            /\ model_vars.Cops = Cardinality(CopIds(agents))
            /\ counts.citizen_count = model_vars.Citizens
            /\ counts.cop_count = model_vars.Cops)
    /\ [][Built =>
            /\ CitizenIds(agents') = CitizenIds(agents)
            /\ CopIds(agents') = CopIds(agents)]_vars

\* the row of a later step counts an Active citizen, a citizen in jail and a cop
C24_Witness ==
    /\ phase = "idle"
    /\ model_vars.Active > 0
    /\ model_vars.Jailed > 0
    /\ model_vars.Cops > 0
    /\ iteration >= 2

\* the edges within EgoRadius hops of citizen c when no edge is left out
UncensoredEgoEdges(c) == ego_graph(G.nodes, Edges, c, EgoRadius).edges

\* the statement of C25 as written: in the activation phase every countdown is at most
\* t_censor - 1, whatever t_censor is
C25_AsStated ==
    Built =>
        \A e \in Edges :
            /\ 0 <= G.censor_steps[e]
            /\ G.censor_steps[e] <= cfg.t_censor
            /\ phase = "agents" => G.censor_steps[e] <= cfg.t_censor - 1

\* C25: every edge countdown c satisfies 0 <= c <= t_censor; in the activation phase
\* c <= t_censor - 1 when t_censor >= 1 and c = 0 when t_censor = 0; so with
\* t_censor <= 1 every countdown is 0 in the activation phase and the ego view of
\* every citizen leaves no edge out, whatever p_link_censor is.
C25_CountdownBounds ==
    Built =>
        /\ \A e \in Edges :
              /\ 0 <= G.censor_steps[e]
              /\ G.censor_steps[e] <= cfg.t_censor
              /\ phase = "agents" =>
                    G.censor_steps[e] <= (IF cfg.t_censor >= 1 THEN cfg.t_censor - 1 ELSE 0)
        /\ (phase = "agents" /\ cfg.t_censor <= 1) =>
              \A c \in CitizenIds(agents) : EgoEdges(c) = UncensoredEgoEdges(c)

\* t_censor = 1 and p_link_censor = 1: an edge censored by the last resolution is in
\* the ego view a citizen computed in the tick that followed
C25_Witness ==
    /\ phase = "agents"
    /\ cfg.t_censor = 1
    /\ cfg.p_link_censor = 10
    /\ ego_view # <<>>
    /\ ties_at[ego_view.unique_id] = iteration + 1
    /\ \E e \in ego_view.ego_network.edges : censored_at[e] = iteration

\* C26: in "Without SWN" mode the pending set is empty, every countdown is 0, the
\* pending-edge and newly-censored counts are 0 in the model and in every collected
\* row, and the strong and weak tie counters of every citizen are 0.
C26_NetworkUntouchedWithoutSWN ==
    (Built /\ cfg.activation_type = "Without SWN") =>
        /\ link_to_censor = {}
        /\ \A e \in Edges : G.censor_steps[e] = 0
        /\ counts.active_links = 0
        /\ counts.censored_links = 0
        /\ model_vars.ActiveLinks = 0
        /\ model_vars.CensoredLinks = 0
        /\ \A c \in CitizenIds(agents) :
              /\ agents[c].strong_ties_received = 0
              /\ agents[c].weak_ties_received = 0

\* "Without SWN", after two steps: a citizen that has taken its step of the tick has
\* a live edge to an Active and free citizen
C26_Witness ==
    /\ phase = "agents"
    /\ cfg.activation_type = "Without SWN"
    /\ iteration >= 2
    /\ \E c \in CitizenIds(agents) \ to_step, d \in CitizenIds(agents) :
          /\ agents[c].jail_sentence = 0
          /\ IsActive(agents, d)
          /\ d \in Adjacent(Edges, c)

====
